---------------------------- MODULE Spec2Model ----------------------------
(***************************************************************************)
(* torch-kalman: the Kalman-filter orchestrator (kalman_filter.py) and the *)
(* Process base class (process/base.py).                                   *)
(*                                                                         *)
(* Three specifications share the module:                                  *)
(*   Spec      KalmanFilter.forward / forecast / simulate, statement by    *)
(*             statement, over a heap of StateBelief objects;              *)
(*   SpecProc  Process.__init__, _set_measure, _set_transition, for_batch  *)
(*             over a heap of Process and design-matrix objects;           *)
(*   SpecSub   Process.__init_subclass__ over a registry of classes.       *)
(*                                                                         *)
(* The joint state is scalar (state_size = 1).  A belief is an object on   *)
(* the heap, named by its index, because the filter aliases beliefs: the   *)
(* same object is held by the caller, by `state_prediction` and by the     *)
(* returned sequence.                                                      *)
(***************************************************************************)
EXTENDS Integers, Sequences, FiniteSets, TLC

VARIABLES
    heap,          \* Seq of StateBelief objects; a belief's identity is its index
    call,          \* the running (or last) forward / forecast / simulate call
    states,        \* the StateBeliefOverTime returned by the last forward: Seq of heap ids
    log,           \* the steps the current call has executed, in order
    ncalls,        \* number of calls started
    measure_size,  \* KalmanFilter.measure_size (self.design.measure_size)
    procs,         \* Seq of Process objects
    mats,          \* Seq of design-matrix objects
    lastOp,        \* the last Process operation and its outcome
    classes,       \* Seq of the Process subclasses defined so far
    lastDef        \* the last subclass definition attempted and its outcome

vars == <<heap, call, states, log, ncalls, measure_size, procs, mats, lastOp, classes, lastDef>>
kfVars == <<heap, call, states, log, ncalls, measure_size>>
procVars == <<procs, mats, lastOp>>
subVars == <<classes, lastDef>>

(***************************************************************************)
(* Bounds                                                                  *)
(***************************************************************************)
MaxT == 3            \* timesteps of an input: 0..MaxT
MaxHorizon == 2      \* horizon of forecast / simulate: -1..MaxHorizon
MaxCalls == 2        \* forward / forecast / simulate calls in one behaviour
MaxMeasures == 2     \* measure dimension of the design and of an input: 1..MaxMeasures
MaxGroups == 1       \* groups of an input: 1..MaxGroups

\* Inputs of T timesteps: the observation at time t is v + t, v the series' level
ObsLevels == {1, 4}
Inputs(T) == { [k \in 1..T |-> v + (k - 1)] : v \in ObsLevels }
\* Time-varying transitions: F[t] = f + t, f the design's base transition
FBases == {2}

\* Python indexing of a tensor of length n: a negative index counts from the end
PyIndex(i, n) == IF i < 0 THEN n + i ELSE i
InRange(i, n) == PyIndex(i, n) >= 0 /\ PyIndex(i, n) < n

(***************************************************************************)
(* StateBelief (state_belief package: not among the sources; its methods   *)
(* follow their specification).  meas.d = 0 means compute_measurement has  *)
(* not run on the belief; otherwise meas names the slice H[meas.t],        *)
(* R[meas.t] of design meas.d it was computed with.  hist is the chain of  *)
(* update / predict calls that produced the belief.                        *)
(***************************************************************************)
NoMeas == [d |-> 0, t |-> 0, r |-> 0, mean |-> 0]
ForeignDesign == -1   \* a design of an earlier, unrelated run

Belief(mean, batch_size, meas, hist) ==
    [mean |-> mean, batch_size |-> batch_size, meas |-> meas, hist |-> hist]

\* predict(F, Q): mean' = F * mean; a new belief without a measurement stage
predict(b, d, Fi, Qi) ==
    Belief(d.F[PyIndex(Fi, Len(d.F)) + 1] * b.mean, b.batch_size, NoMeas,
           Append(b.hist, [op |-> "predict", d |-> d.id, i |-> Fi, j |-> Qi]))

\* update(obs): innovation = obs - (measured mean of the belief's measurement
\* stage); gain 1 (H = 1, R = 0); a new belief without a measurement stage
update(b, c, oi, obs) ==
    Belief(b.mean + (obs - b.meas.mean), b.batch_size, NoMeas,
           Append(b.hist, [op |-> "update", d |-> c, i |-> oi, j |-> b.meas.t]))

\* compute_measurement(H, R): stores the measurement-space mean H * mean on the
\* belief itself (H = 1); the caller discards the return value
compute_measurement(b, d, Hi, Ri) ==
    [b EXCEPT !.meas = [d |-> d.id, t |-> PyIndex(Hi, d.num_timesteps),
                        r |-> PyIndex(Ri, d.num_timesteps), mean |-> b.mean]]

(***************************************************************************)
(* Design.for_batch (design package: not among the sources): F[t], H[t],   *)
(* R[t], Q[t] for t in [0, num_timesteps); F is a sequence, F[t] = F[t+1]  *)
(* of the sequence.                                                        *)
(***************************************************************************)
NoDesign == [id |-> 0, num_groups |-> 0, num_timesteps |-> 0, F |-> <<>>]

DesignsFor(id, num_groups, num_timesteps) ==
    { [id |-> id, num_groups |-> num_groups, num_timesteps |-> num_timesteps, F |-> F] :
        F \in { [k \in 1..num_timesteps |-> f + (k - 1)] : f \in FBases } }

\* design_for_batch.get_block_diag_initial_state: the design's initial mean
InitialMean == 1

(***************************************************************************)
(* Steps recorded in the log                                               *)
(***************************************************************************)
\* op on belief b at loop index t, giving belief r, with tensor indices i, j;
\* md is the design of the measurement stage an update read
Ev(op, t, b, r, i, j, md) ==
    [op |-> op, t |-> t, b |-> b, r |-> r, i |-> i, j |-> j, md |-> md]


Idle == [kind |-> "none", pc |-> "idle", shape |-> <<>>, input |-> <<>>,
         initial_state |-> 0, horizon |-> 0, from_dt |-> -1, design |-> NoDesign,
         state_prediction |-> 0, state_belief |-> 0, t |-> 0, out |-> <<>>,
         err |-> "", heap0 |-> <<>>]

Finished == call.pc \in {"idle", "raised", "returned"}


Alloc(b) == Append(heap, b)
NewId == Len(heap) + 1

(***************************************************************************)
(* KalmanFilter.forward                                                    *)
(***************************************************************************)
\* input.shape: [groups, timesteps, measures], or a 2-d tensor
Shapes ==
    { <<g, T, m>> : g \in 1..MaxGroups, T \in 0..MaxT, m \in 1..MaxMeasures }
      \cup { <<1, m>> : m \in 1..MaxMeasures }

\* line 88: if t > 0
ForwardUpdates(t) == t > 0
\* (variant: the update reads the observation of the timestep being predicted)
ObsIndex_Current(t) == t
\* line 90: input[:, t - 1, :]
ObsIndex(t) == t - 1
\* (variant: the transition out of t instead of the transition into t)
TransitionIndex_Current(t) == t
\* line 94: design_for_batch.F[t - 1], design_for_batch.Q[t - 1]
TransitionIndex(t) == t - 1
\* line 97: design_for_batch.H[t], design_for_batch.R[t]
MeasurementIndex(t) == t

\* (variant: the timestep dimension is compared instead of the measure dimension)
ForwardShapeError_Timesteps(shape) ==
    IF Len(shape) # 3 THEN "ValueError: unpack"
    ELSE IF shape[2] # measure_size THEN "ValueError: measure-size"
    ELSE ""

\* lines 67-70: unpack the shape, compare the measure dimension
ForwardShapeError(shape) ==
    IF Len(shape) # 3 THEN "ValueError: unpack"
    ELSE IF shape[3] # measure_size THEN "ValueError: measure-size"
    ELSE ""

\* What a caller passes as initial_state: None (0), the belief it built itself,
\* or the last belief of the sequence an earlier forward returned
CallerBeliefs == {0, 1} \cup (IF Len(states) > 0 THEN {states[Len(states)]} ELSE {})

\* lines 64-70
ForwardCall ==
    /\ Finished /\ ncalls < MaxCalls
    /\ \E shape \in Shapes, initial_state \in CallerBeliefs :
         \E input \in Inputs(IF Len(shape) = 3 THEN shape[2] ELSE 0) :
           call' = [Idle EXCEPT !.kind = "forward", !.shape = shape, !.input = input,
                                !.initial_state = initial_state, !.heap0 = heap,
                                !.err = ForwardShapeError(shape),
                                !.pc = IF ForwardShapeError(shape) # "" THEN "raised"
                                       ELSE "design"]
    /\ log' = <<>>
    /\ ncalls' = ncalls + 1
    /\ UNCHANGED <<heap, states, measure_size, procVars, subVars>>

\* line 72
ForwardDesign ==
    /\ call.kind = "forward" /\ call.pc = "design"
    /\ \E d \in DesignsFor(ncalls, call.shape[1], call.shape[2]) :
         call' = [call EXCEPT !.design = d, !.pc = "initial_state"]
    /\ log' = Append(log, Ev("design", 0, 0, 0, 0, 0, 0))
    /\ UNCHANGED <<heap, states, ncalls, measure_size, procVars, subVars>>

\* lines 75-78
ForwardInitialState ==
    /\ call.kind = "forward" /\ call.pc = "initial_state"
    /\ IF call.initial_state = 0
       THEN /\ heap' = Alloc(Belief(InitialMean, call.shape[1], NoMeas, <<>>))
            /\ call' = [call EXCEPT !.state_prediction = NewId, !.pc = "loop"]
       ELSE /\ heap' = heap
            /\ call' = [call EXCEPT !.state_prediction = call.initial_state, !.pc = "loop"]
    /\ UNCHANGED <<states, log, ncalls, measure_size, procVars, subVars>>

\* lines 87-90: t > 0, state_belief = state_prediction.update(obs=input[:, t - 1, :])
ForwardUpdate ==
    /\ call.kind = "forward" /\ call.pc = "loop"
    /\ call.t < call.shape[2] /\ ForwardUpdates(call.t)
    /\ LET b == heap[call.state_prediction]
           oi == ObsIndex(call.t)
       IN IF b.meas.d = 0 \/ ~InRange(oi, Len(call.input))
          THEN /\ call' = [call EXCEPT !.pc = "raised", !.err = "update failed"]
               /\ UNCHANGED <<heap, log>>
          ELSE /\ heap' = Alloc(update(b, ncalls, oi,
                                        call.input[PyIndex(oi, Len(call.input)) + 1]))
               /\ call' = [call EXCEPT !.state_belief = NewId, !.pc = "predict"]
               /\ log' = Append(log, Ev("update", call.t, call.state_prediction, NewId,
                                        oi, b.meas.t, b.meas.d))
    /\ UNCHANGED <<states, ncalls, measure_size, procVars, subVars>>

\* line 94: state_prediction = state_belief.predict(F=..F[t - 1], Q=..Q[t - 1])
ForwardPredict ==
    /\ call.kind = "forward" /\ call.pc = "predict"
    /\ LET i == TransitionIndex(call.t)
       IN IF ~InRange(i, Len(call.design.F))
          THEN /\ call' = [call EXCEPT !.pc = "raised", !.err = "IndexError"]
               /\ UNCHANGED <<heap, log>>
          ELSE /\ heap' = Alloc(predict(heap[call.state_belief], call.design, i, i))
               /\ call' = [call EXCEPT !.state_prediction = NewId, !.pc = "measure"]
               /\ log' = Append(log, Ev("predict", call.t, call.state_belief, NewId, i, i, 0))
    /\ UNCHANGED <<states, ncalls, measure_size, procVars, subVars>>

\* lines 97-100: state_prediction.compute_measurement(H=..H[t], R=..R[t]) on the
\* object itself, then state_predictions.append(state_prediction)
ForwardMeasure ==
    /\ call.kind = "forward"
    /\ \/ call.pc = "measure"
       \/ call.pc = "loop" /\ call.t < call.shape[2] /\ ~ForwardUpdates(call.t)
    /\ LET i == MeasurementIndex(call.t)
           sp == call.state_prediction
       IN IF ~InRange(i, Len(call.design.F))
          THEN /\ call' = [call EXCEPT !.pc = "raised", !.err = "IndexError"]
               /\ UNCHANGED <<heap, log>>
          ELSE /\ heap' = [heap EXCEPT ![sp] = compute_measurement(@, call.design, i, i)]
               /\ call' = [call EXCEPT !.out = Append(@, sp), !.t = @ + 1, !.pc = "loop"]
               /\ log' = Append(log, Ev("compute_measurement", call.t, sp, sp, i, i, 0))
    /\ UNCHANGED <<states, ncalls, measure_size, procVars, subVars>>

\* lines 102-104: concatenate_over_time(state_beliefs=state_predictions, ...)
ForwardReturn ==
    /\ call.kind = "forward" /\ call.pc = "loop"
    /\ call.t >= call.shape[2]
    /\ call' = [call EXCEPT !.pc = "returned"]
    /\ states' = call.out
    /\ UNCHANGED <<heap, log, ncalls, measure_size, procVars, subVars>>

(***************************************************************************)
(* KalmanFilter.forecast                                                   *)
(***************************************************************************)
Horizons == (-1)..MaxHorizon

\* states.last_prediction: the last belief of the sequence
last_prediction(sts) == sts[Len(sts)]

\* (variant: assert horizon >= 0)
HorizonError_NonNegative(horizon) == IF horizon >= 0 THEN "" ELSE "AssertionError"

\* lines 115, 136: assert horizon > 0
HorizonError(horizon) == IF horizon > 0 THEN "" ELSE "AssertionError"

\* (variant: the loop predicts at every step, the first included)
ForecastPredicts_Always(t) == t >= 0
\* line 156: if t > 0
ForecastPredicts(t) == t > 0
\* line 159: design_for_batch.F[t - 1], design_for_batch.Q[t - 1]
ForecastTransitionIndex(t) == t - 1
\* line 162: design_for_batch.H[t], design_for_batch.R[t]
ForecastMeasurementIndex(t) == t

\* lines 136-138
ForecastCall ==
    /\ Finished /\ ncalls < MaxCalls /\ Len(states) > 0
    /\ \E horizon \in Horizons, from_dt \in {-1} \cup (0..(Len(states) - 1)) :
         call' = [Idle EXCEPT !.kind = "forecast", !.horizon = horizon, !.from_dt = from_dt,
                              !.heap0 = heap, !.err = HorizonError(horizon),
                              !.pc = IF HorizonError(horizon) # "" THEN "raised" ELSE "seed"]
    /\ log' = <<>>
    /\ ncalls' = ncalls + 1
    /\ UNCHANGED <<heap, states, measure_size, procVars, subVars>>

\* lines 141-145 (and 120-124 of simulate): the seed belief.  slice_by_dt
\* assembles a new belief from the sequence's means at the requested time
SelectSeed ==
    IF call.from_dt = -1
    THEN /\ heap' = heap
         /\ call' = [call EXCEPT !.state_prediction = last_prediction(states),
                                 !.pc = "design"]
    ELSE /\ heap' = Alloc([heap[states[call.from_dt + 1]] EXCEPT !.meas = NoMeas])
         /\ call' = [call EXCEPT !.state_prediction = NewId, !.pc = "design"]

ForecastSeed ==
    /\ call.kind = "forecast" /\ call.pc = "seed"
    /\ SelectSeed
    /\ log' = Append(log, Ev("seed", 0, 0, call'.state_prediction, 0, 0, 0))
    /\ UNCHANGED <<states, ncalls, measure_size, procVars, subVars>>

\* line 147
ForecastDesign ==
    /\ call.kind = "forecast" /\ call.pc = "design"
    /\ \E d \in DesignsFor(ncalls, heap[call.state_prediction].batch_size, call.horizon) :
         call' = [call EXCEPT !.design = d, !.pc = "loop"]
    /\ log' = Append(log, Ev("design", 0, 0, 0, 0, 0, 0))
    /\ UNCHANGED <<heap, states, ncalls, measure_size, procVars, subVars>>

\* lines 155-159: t > 0, state_prediction = state_prediction.predict(F[t-1], Q[t-1])
ForecastPredict ==
    /\ call.kind = "forecast" /\ call.pc = "loop"
    /\ call.t < call.horizon /\ ForecastPredicts(call.t)
    /\ LET i == ForecastTransitionIndex(call.t)
       IN IF ~InRange(i, Len(call.design.F))
          THEN /\ call' = [call EXCEPT !.pc = "raised", !.err = "IndexError"]
               /\ UNCHANGED <<heap, log>>
          ELSE /\ heap' = Alloc(predict(heap[call.state_prediction], call.design, i, i))
               /\ call' = [call EXCEPT !.state_prediction = NewId, !.pc = "measure"]
               /\ log' = Append(log, Ev("predict", call.t, call.state_prediction, NewId, i, i, 0))
    /\ UNCHANGED <<states, ncalls, measure_size, procVars, subVars>>

\* lines 162-165
ForecastMeasure ==
    /\ call.kind = "forecast"
    /\ \/ call.pc = "measure"
       \/ call.pc = "loop" /\ call.t < call.horizon /\ ~ForecastPredicts(call.t)
    /\ LET i == ForecastMeasurementIndex(call.t)
           sp == call.state_prediction
       IN IF ~InRange(i, Len(call.design.F))
          THEN /\ call' = [call EXCEPT !.pc = "raised", !.err = "IndexError"]
               /\ UNCHANGED <<heap, log>>
          ELSE /\ heap' = [heap EXCEPT ![sp] = compute_measurement(@, call.design, i, i)]
               /\ call' = [call EXCEPT !.out = Append(@, sp), !.t = @ + 1, !.pc = "loop"]
               /\ log' = Append(log, Ev("compute_measurement", call.t, sp, sp, i, i, 0))
    /\ UNCHANGED <<states, ncalls, measure_size, procVars, subVars>>

\* lines 167-169
ForecastReturn ==
    /\ call.kind = "forecast" /\ call.pc = "loop"
    /\ call.t >= call.horizon
    /\ call' = [call EXCEPT !.pc = "returned"]
    /\ UNCHANGED <<heap, states, log, ncalls, measure_size, procVars, subVars>>

(***************************************************************************)
(* KalmanFilter.simulate                                                   *)
(***************************************************************************)
\* lines 115-117
SimulateCall ==
    /\ Finished /\ ncalls < MaxCalls /\ Len(states) > 0
    /\ \E horizon \in Horizons, from_dt \in {-1} \cup (0..(Len(states) - 1)) :
         call' = [Idle EXCEPT !.kind = "simulate", !.horizon = horizon, !.from_dt = from_dt,
                              !.heap0 = heap, !.err = HorizonError(horizon),
                              !.pc = IF HorizonError(horizon) # "" THEN "raised" ELSE "seed"]
    /\ log' = <<>>
    /\ ncalls' = ncalls + 1
    /\ UNCHANGED <<heap, states, measure_size, procVars, subVars>>

\* lines 120-124
SimulateSeed ==
    /\ call.kind = "simulate" /\ call.pc = "seed"
    /\ SelectSeed
    /\ log' = Append(log, Ev("seed", 0, 0, call'.state_prediction, 0, 0, 0))
    /\ UNCHANGED <<states, ncalls, measure_size, procVars, subVars>>

\* line 126
SimulateDesign ==
    /\ call.kind = "simulate" /\ call.pc = "design"
    /\ \E d \in DesignsFor(ncalls, heap[call.state_prediction].batch_size, call.horizon) :
         call' = [call EXCEPT !.design = d, !.pc = "simulate"]
    /\ log' = Append(log, Ev("design", 0, 0, 0, 0, 0, 0))
    /\ UNCHANGED <<heap, states, ncalls, measure_size, procVars, subVars>>

\* line 128: initial_state.simulate(design_for_batch=design_for_batch, **kwargs)
SimulateReturn ==
    /\ call.kind = "simulate" /\ call.pc = "simulate"
    /\ call' = [call EXCEPT !.pc = "returned"]
    /\ log' = Append(log, Ev("simulate", 0, call.state_prediction, 0, 0, 0, 0))
    /\ UNCHANGED <<heap, states, ncalls, measure_size, procVars, subVars>>

(***************************************************************************)
(* The filter's specification.  The caller holds one belief of its own, with*)
(* or without a measurement stage left by an earlier run.                  *)
(***************************************************************************)
Init ==
    /\ measure_size \in 1..MaxMeasures
    /\ \E m \in {NoMeas, [d |-> ForeignDesign, t |-> 0, r |-> 0, mean |-> 2]} :
         heap = << Belief(2, 1, m, <<>>) >>
    /\ call = Idle
    /\ states = <<>>
    /\ log = <<>>
    /\ ncalls = 0
    /\ procs = <<>> /\ mats = <<>> /\ lastOp = <<>>
    /\ classes = <<>> /\ lastDef = <<>>

Next ==
    \/ ForwardCall \/ ForwardDesign \/ ForwardInitialState
    \/ ForwardUpdate \/ ForwardPredict \/ ForwardMeasure \/ ForwardReturn
    \/ ForecastCall \/ ForecastSeed \/ ForecastDesign
    \/ ForecastPredict \/ ForecastMeasure \/ ForecastReturn
    \/ SimulateCall \/ SimulateSeed \/ SimulateDesign \/ SimulateReturn

Spec == Init /\ [][Next]_vars


(***************************************************************************)
(* Design matrices (process.utils.design_matrix: not among the sources).   *)
(* A matrix object holds its assigned cells <<row, col>>; batch = <<>> for *)
(* a template, <<num_groups, num_timesteps>> once materialized.            *)
(***************************************************************************)
MaxProcs == 2        \* Process objects (templates and batch copies) alive at once

Matrix(kind, cells, batch) == [kind |-> kind, cells |-> cells, batch |-> batch]

\* MeasureMatrix.measures: the measures that have an assignment
measures_of(m) == { c[1] : c \in m.cells }
\* TransitionMatrix.empty
empty(m) == m.cells = {}

\* DesignMatrix.assign(.., overwrite): a cell is assigned at most once unless
\* overwrite is requested
assign_error(m, cell, overwrite) ==
    IF cell \in m.cells /\ ~overwrite THEN "ValueError: already assigned" ELSE ""
assign(m, cell) == [m EXCEPT !.cells = @ \cup {cell}]

\* DesignMatrix.for_batch(num_groups, num_timesteps): a new, materialized matrix
mat_for_batch(m, num_groups, num_timesteps) ==
    [m EXCEPT !.batch = <<num_groups, num_timesteps>>]

(***************************************************************************)
(* Process                                                                 *)
(***************************************************************************)
\* state_elements a caller passes to the constructor
StateElementChoices == { <<"a">>, <<"a", "b">>, <<"a", "a">>, <<"b", "a", "b">> }
MeasureNames == {"y"}
Elems(state_elements) == { state_elements[i] : i \in DOMAIN state_elements }

\* The class of the process: its dynamic_state_elements and fixed_state_elements
\* properties (lines 66-78 give the defaults: all elements, none)
ClassProperties(state_elements) ==
    { [dynamic |-> Elems(state_elements), fixed |-> {}],
      [dynamic |-> {state_elements[1]}, fixed |-> Elems(state_elements) \ {state_elements[1]}],
      [dynamic |-> Elems(state_elements), fixed |-> {state_elements[1]}] }

\* lines 50-51
measures(pr) == measures_of(mats[pr.measure_mat])

\* (variant: the duplicate check compares the length with itself)
validate_NoDuplicateCheck(state_elements, dynamic, fixed) ==
    IF dynamic \cap fixed # {} THEN "ValueError: misconfigured"
    ELSE ""

\* lines 138-142
validate(state_elements, dynamic, fixed) ==
    IF Len(state_elements) # Cardinality(Elems(state_elements))
    THEN "ValueError: duplicate state_elements"
    ELSE IF dynamic \cap fixed # {} THEN "ValueError: misconfigured"
    ELSE ""

\* procs0, mats0: the objects as they were when __init__ or for_batch was called
Op(op, p, args, err, ret) ==
    [op |-> op, p |-> p, args |-> args, err |-> err, ret |-> ret,
     procs0 |-> IF op \in {"init", "for_batch"} THEN procs ELSE <<>>,
     mats0 |-> IF op \in {"init", "for_batch"} THEN mats ELSE <<>>]

\* lines 21-35: the three matrices are built, then _validate runs; when it
\* raises, no Process comes into being
ProcessInit ==
    /\ Len(procs) < MaxProcs
    /\ \E state_elements \in StateElementChoices :
         \E cls \in ClassProperties(state_elements) :
           LET err == validate(state_elements, cls.dynamic, cls.fixed)
               n == Len(mats)
           IN IF err # ""
              THEN /\ lastOp' = Op("init", 0, <<state_elements, cls>>, err, 0)
                   /\ UNCHANGED <<procs, mats>>
              ELSE /\ mats' = mats \o << Matrix("transition", {}, <<>>),
                                         Matrix("measure", {}, <<>>),
                                         Matrix("variance", {}, <<>>) >>
                   /\ procs' = Append(procs,
                        [state_elements |-> state_elements,
                         dynamic |-> cls.dynamic, fixed |-> cls.fixed,
                         transition_mat |-> n + 1, measure_mat |-> n + 2,
                         variance_multi_mat |-> n + 3, batch_info |-> <<>>])
                   /\ lastOp' = Op("init", 0, <<state_elements, cls>>, "",
                                   Len(procs) + 1)
    /\ UNCHANGED <<kfVars, subVars>>

Templates == { p \in DOMAIN procs : procs[p].batch_info = <<>> }

\* lines 60-64, 88-95: add_measure, which "calls _set_measure with default
\* state_element, value"; the default state element is the first
SetMeasure ==
    /\ \E p \in Templates, measure \in MeasureNames, force \in BOOLEAN :
         \E state_element \in {procs[p].state_elements[1]} :
           LET m == procs[p].measure_mat
               cell == <<measure, state_element>>
               err == assign_error(mats[m], cell, force)
           IN /\ mats' = IF err # "" THEN mats
                         ELSE [mats EXCEPT ![m] = assign(@, cell)]
              /\ lastOp' = Op("_set_measure", p, cell, err, 0)
    /\ UNCHANGED <<procs, kfVars, subVars>>

\* lines 109-116: _set_transition
SetTransition ==
    /\ \E p \in Templates, force \in BOOLEAN :
         \E from_element \in Elems(procs[p].state_elements) :
           LET m == procs[p].transition_mat
               cell == <<from_element, from_element>>
               err == assign_error(mats[m], cell, force)
           IN /\ mats' = IF err # "" THEN mats
                         ELSE [mats EXCEPT ![m] = assign(@, cell)]
              /\ lastOp' = Op("_set_transition", p, cell, err, 0)
    /\ UNCHANGED <<procs, kfVars, subVars>>

\* (variant: only the transitions are checked)
for_batch_error_NoMeasureCheck(pr) ==
    IF empty(mats[pr.transition_mat]) THEN "TypeError: no transitions"
    ELSE ""

\* lines 38-41
for_batch_error(pr) ==
    IF measures(pr) = {} THEN "TypeError: no measures"
    ELSE IF empty(mats[pr.transition_mat]) THEN "TypeError: no transitions"
    ELSE ""

\* (variant: for_batch = self, the batch fields are set on the process itself)
copy_target_Self(p) == p
\* line 42: for_batch = copy(self), a new object
copy_target(p) == Len(procs) + 1

BatchShapes == { <<g, T>> : g \in 1..MaxGroups, T \in {1, MaxT} }

\* lines 37-47
ForBatch ==
    /\ Len(procs) < MaxProcs
    /\ \E p \in Templates, shape \in BatchShapes :
         LET self == procs[p]
             err == for_batch_error(self)
             c == copy_target(p)
             n == Len(mats)
         IN IF err # ""
            THEN /\ lastOp' = Op("for_batch", p, shape, err, 0)
                 /\ UNCHANGED <<procs, mats>>
            ELSE /\ mats' = mats \o
                      << mat_for_batch(mats[self.variance_multi_mat], shape[1], shape[2]),
                         mat_for_batch(mats[self.measure_mat], shape[1], shape[2]),
                         mat_for_batch(mats[self.transition_mat], shape[1], shape[2]) >>
                 /\ procs' = [ (IF c \in DOMAIN procs THEN procs ELSE Append(procs, self))
                                 EXCEPT ![c].batch_info = shape,
                                        ![c].variance_multi_mat = n + 1,
                                        ![c].measure_mat = n + 2,
                                        ![c].transition_mat = n + 3 ]
                 /\ lastOp' = Op("for_batch", p, shape, "", c)
    /\ UNCHANGED <<kfVars, subVars>>

InitProc ==
    /\ procs = <<>> /\ mats = <<>> /\ lastOp = <<>>
    /\ measure_size = 1 /\ heap = <<>> /\ call = Idle /\ states = <<>>
    /\ log = <<>> /\ ncalls = 0
    /\ classes = <<>> /\ lastDef = <<>>

NextProc == ProcessInit \/ SetMeasure \/ SetTransition \/ ForBatch

SpecProc == InitProc /\ [][NextProc]_vars

(***************************************************************************)
(* Process.__init_subclass__ : the check made when a subclass is defined.  *)
(* A class is the record of the attributes it resolves to: the signature of*)
(* for_batch and of initial_state_means_for_batch, and for each of the     *)
(* three methods the class whose code it is (0 is Process itself).         *)
(***************************************************************************)
MaxClasses == 2      \* subclasses defined in one behaviour

\* line 37 and line 80: the signatures of Process itself
ProcessClass ==
    [for_batch |-> <<"self", "num_groups", "num_timesteps", "kwargs">>,
     for_batch_code |-> 0,
     init_mean |-> <<"self", "parameters", "num_groups", "kwargs">>,
     init_mean_code |-> 0,
     batch_kwargs_code |-> 0]

\* Signatures a subclass body gives its overrides
ForBatchSignatures ==
    { <<"self", "num_groups", "num_timesteps", "kwargs">>,
      <<"self", "num_groups", "num_timesteps", "start_datetimes">>,
      <<"self", "num_groups", "num_timesteps", "start_datetimes", "input">> }
InitMeanSignatures ==
    { <<"self", "parameters", "num_groups", "kwargs">>,
      <<"self", "parameters", "num_groups", "start_datetimes">>,
      <<"self", "parameters", "num_groups", "input", "start_datetimes">>,
      <<"self", "parameters", "num_groups">> }
Inherit == <<>>

\* line 177
excluded == {"self", "num_groups", "num_timesteps", "parameters"}

\* lines 173-181, then set(..) of lines 148-149: the parameter names of the
\* method's signature that are not excluded
batch_kwargs(method) == { method[i] : i \in { k \in DOMAIN method : method[k] \notin excluded } }

\* attribute lookup: the class's own definition, else its parent's
Resolve(parent, body) ==
    LET base == IF parent = 0 THEN ProcessClass ELSE classes[parent]
        id == Len(classes) + 1
    IN [for_batch |-> IF body.for_batch = Inherit THEN base.for_batch ELSE body.for_batch,
        for_batch_code |-> IF body.for_batch = Inherit THEN base.for_batch_code ELSE id,
        init_mean |-> IF body.init_mean = Inherit THEN base.init_mean ELSE body.init_mean,
        init_mean_code |-> IF body.init_mean = Inherit THEN base.init_mean_code ELSE id,
        batch_kwargs_code |-> IF body.batch_kwargs THEN id ELSE base.batch_kwargs_code]

\* (variant: the two keyword sets need only be nested)
init_subclass_error_Subset(cls) ==
    IF cls.batch_kwargs_code # 0 THEN ""
    ELSE IF cls.for_batch_code # 0 /\ "kwargs" \in batch_kwargs(cls.for_batch)
    THEN "TypeError: for_batch must define its keyword args explicitly"
    ELSE IF cls.init_mean_code # 0 /\ "kwargs" \in batch_kwargs(cls.init_mean)
    THEN "TypeError: initial_state_means_for_batch must define kwargs explicitly"
    ELSE IF /\ cls.for_batch_code # 0 /\ cls.init_mean_code # 0
            /\ ~(batch_kwargs(cls.init_mean) \subseteq batch_kwargs(cls.for_batch))
    THEN "TypeError: must match signature of for_batch"
    ELSE ""

\* lines 144-171
init_subclass_error(cls) ==
    LET overrides_batch_kwargs == cls.batch_kwargs_code # 0
        overrides_for_batch == cls.for_batch_code # 0
        overrides_init_mean == cls.init_mean_code # 0
    IN IF overrides_batch_kwargs THEN ""
       ELSE IF overrides_for_batch /\ "kwargs" \in batch_kwargs(cls.for_batch)
       THEN "TypeError: for_batch must define its keyword args explicitly"
       ELSE IF overrides_init_mean /\ "kwargs" \in batch_kwargs(cls.init_mean)
       THEN "TypeError: initial_state_means_for_batch must define kwargs explicitly"
       ELSE IF /\ overrides_for_batch /\ overrides_init_mean
               /\ batch_kwargs(cls.for_batch) # batch_kwargs(cls.init_mean)
       THEN "TypeError: must match signature of for_batch"
       ELSE ""

\* class C(parent): ... ; when __init_subclass__ raises, the class statement
\* fails and no class comes into being
DefineSubclass ==
    /\ Len(classes) < MaxClasses
    /\ \E parent \in 0..Len(classes),
          fb \in ForBatchSignatures \cup {Inherit},
          im \in InitMeanSignatures \cup {Inherit},
          bk \in BOOLEAN :
         LET cls == Resolve(parent, [for_batch |-> fb, init_mean |-> im, batch_kwargs |-> bk])
             err == init_subclass_error(cls)
         IN /\ lastDef' = [cls |-> cls, err |-> err]
            /\ classes' = IF err = "" THEN Append(classes, cls) ELSE classes
    /\ UNCHANGED <<kfVars, procVars>>

InitSub ==
    /\ classes = <<>> /\ lastDef = <<>>
    /\ procs = <<>> /\ mats = <<>> /\ lastOp = <<>>
    /\ measure_size = 1 /\ heap = <<>> /\ call = Idle /\ states = <<>>
    /\ log = <<>> /\ ncalls = 0

NextSub == DefineSubclass

SpecSub == InitSub /\ [][NextSub]_vars

(***************************************************************************)
(* Properties of the filter (checked under Spec)                           *)
(***************************************************************************)
\* The indices of the observations of call c that went into belief b, in order
RECURSIVE UpdatesOf(_, _)
UpdatesOf(hist, c) ==
    IF hist = <<>> THEN <<>>
    ELSE LET e == hist[Len(hist)]
             rest == UpdatesOf(SubSeq(hist, 1, Len(hist) - 1), c)
         IN IF e.op = "update" /\ e.d = c THEN Append(rest, e.i) ELSE rest

\* C1: forward returns exactly T beliefs in time order, and the belief at index t
\* is the result of updates with exactly obs[0..t-1] of the input, in that order
\* (none for t = 0): no observation at index >= t has gone into belief t.
C1_OneStepAhead ==
    call.kind = "forward" =>
      /\ call.pc = "returned" => Len(call.out) = call.shape[2] /\ states = call.out
      /\ \A k \in DOMAIN call.out :
           LET u == UpdatesOf(heap[call.out[k]].hist, ncalls)
           IN /\ u = [n \in 1..(k - 1) |-> n - 1]
              /\ \A n \in 1..Len(u) : u[n] < k - 1

C1_Witness ==
    /\ call.kind = "forward" /\ call.pc = "returned"
    /\ Len(call.out) = 3 /\ call.initial_state # 0
    /\ UpdatesOf(heap[call.out[3]].hist, ncalls) = <<0, 1>>

\* The seed of a forecast as it was when the call was made
SeedId == IF call.from_dt = -1 THEN last_prediction(states) ELSE states[call.from_dt + 1]

\* C2 as stated: forecast returns exactly horizon beliefs and the first has the
\* mean of a one-step predict, mean' = F * mean, of the last belief of the
\* forward run.
C2_FirstIsOneStepPredict ==
    (call.kind = "forecast" /\ call.pc = "returned" /\ call.from_dt = -1) =>
      /\ Len(call.out) = call.horizon
      /\ heap[call.out[1]].mean
           = call.design.F[1] * call.heap0[last_prediction(states)].mean

\* C2 amended: forecast returns exactly horizon beliefs; the first is the seed
\* itself (states.last_prediction, or the belief selected by
\* forecast_from_datetimes), with no predict and no update applied, so its mean is
\* the seed's mean; the belief at index k >= 1 is a one-step predict with F[k-1]
\* of the belief at index k-1.
C2_FirstIsSeed ==
    (call.kind = "forecast" /\ call.pc = "returned") =>
      /\ Len(call.out) = call.horizon
      /\ heap[call.out[1]].mean = call.heap0[SeedId].mean
      /\ heap[call.out[1]].hist = call.heap0[SeedId].hist
      /\ call.from_dt = -1 => call.out[1] = last_prediction(states)
      /\ \A k \in 2..Len(call.out) :
           /\ heap[call.out[k]].mean = call.design.F[k - 1] * heap[call.out[k - 1]].mean
           /\ heap[call.out[k]].hist
                = Append(heap[call.out[k - 1]].hist,
                         [op |-> "predict", d |-> ncalls, i |-> k - 2, j |-> k - 2])

C2_Witness ==
    /\ call.kind = "forecast" /\ call.pc = "returned" /\ call.from_dt = -1
    /\ Len(states) = 3 /\ Len(call.out) = 2
    /\ heap[call.out[1]].mean # call.design.F[1] * heap[call.out[1]].mean

\* C3 as stated: no step of forward, forecast or simulate modifies a belief that
\* existed when the call was made (the caller's initial_state, the beliefs of
\* `states`, states.last_prediction and its measurement stage).
C3_BeliefsImmutable ==
    \A i \in DOMAIN call.heap0 : heap[i] = call.heap0[i]

\* C4: forward fails with a dimension-mismatch error whenever the last dimension
\* of the input differs from the design's measure count, before the batch design
\* is built and before any update, predict or compute_measurement; when the
\* dimensions match no such error is raised.
C4_MeasureDimensionChecked ==
    call.kind = "forward" =>
      /\ call.shape[Len(call.shape)] # measure_size =>
           /\ call.pc = "raised" /\ call.err \in {"ValueError: unpack", "ValueError: measure-size"}
           /\ log = <<>> /\ call.design = NoDesign /\ call.out = <<>>
           /\ heap = call.heap0
      /\ (Len(call.shape) = 3 /\ call.shape[3] = measure_size) =>
           /\ call.err = ""
           /\ call.pc # "raised"

C4_Witness ==
    /\ call.kind = "forward" /\ call.pc = "raised" /\ Len(call.shape) = 3
    /\ call.shape[3] # measure_size /\ call.shape[2] = measure_size

\* C5: forecast and simulate fail for every horizon <= 0, before the seed belief
\* is selected, before a batch design is built and before any predict; for every
\* horizon > 0 the horizon check passes.
C5_HorizonChecked ==
    call.kind \in {"forecast", "simulate"} =>
      /\ call.horizon <= 0 =>
           /\ call.pc = "raised" /\ call.err = "AssertionError"
           /\ log = <<>> /\ call.state_prediction = 0 /\ call.design = NoDesign
           /\ call.out = <<>> /\ heap = call.heap0
      /\ call.horizon > 0 => call.err # "AssertionError" /\ call.pc # "raised"

C5_Witness ==
    /\ call.kind = "simulate" /\ call.horizon = -1 /\ call.pc = "raised"

\* C10: in forward the steps of every t > 0 run in the order update, predict,
\* compute_measurement with matching indices: the update with obs[t-1] acts on
\* the prediction for t-1, whose measurement stage was computed with H[t-1],
\* R[t-1] of this call's design (also when the caller supplied initial_state);
\* the predict uses F[t-1], Q[t-1]; the belief appended at index t carries the
\* measurement computed with H[t], R[t].
C10_StepOrder ==
    call.kind = "forward" =>
      /\ \A n \in DOMAIN log :
           LET e == log[n]
               t == n \div 3
           IN /\ n = 1 => e.op = "design"
              /\ n = 2 => /\ e.op = "compute_measurement" /\ e.t = 0
                          /\ e.i = 0 /\ e.j = 0
                          /\ call.initial_state # 0 => e.b = call.initial_state
              /\ (n > 2 /\ n % 3 = 0) =>
                    /\ e.op = "update" /\ e.t = t /\ t > 0
                    /\ e.i = t - 1
                    /\ e.b = log[n - 1].r
                    /\ log[n - 1].op = "compute_measurement"
                    /\ e.j = t - 1 /\ e.md = ncalls
              /\ (n > 2 /\ n % 3 = 1) =>
                    /\ e.op = "predict" /\ e.t = t
                    /\ e.b = log[n - 1].r
                    /\ e.i = t - 1 /\ e.j = t - 1
              /\ (n > 2 /\ n % 3 = 2) =>
                    /\ e.op = "compute_measurement" /\ e.t = t
                    /\ e.b = log[n - 1].r
                    /\ e.i = t /\ e.j = t
      /\ \A k \in DOMAIN call.out :
           /\ heap[call.out[k]].meas.d = ncalls
           /\ heap[call.out[k]].meas.t = k - 1
           /\ heap[call.out[k]].meas.r = k - 1

C10_Witness ==
    /\ call.kind = "forward" /\ call.pc = "returned" /\ call.initial_state = 1
    /\ call.heap0[1].meas.d = ForeignDesign
    /\ Len(log) = 8 /\ log[6].op = "update" /\ log[6].md = ncalls

(***************************************************************************)
(* Properties of Process (checked under SpecProc)                          *)
(***************************************************************************)
IsOp(op) == lastOp # <<>> /\ lastOp.op = op

\* C6: for_batch never mutates the process it is called on: after the call,
\* successful or failing, every Process and matrix object that existed before is
\* as it was (the original keeps its unmaterialized template matrices and has no
\* batch_info), and a successful call returns a distinct copy whose three
\* matrices are new objects materialized for (num_groups, num_timesteps).
C6_ForBatchLeavesOriginal ==
    IsOp("for_batch") =>
      /\ \A i \in DOMAIN lastOp.procs0 : procs[i] = lastOp.procs0[i]
      /\ \A j \in DOMAIN lastOp.mats0 : mats[j] = lastOp.mats0[j]
      /\ LET self == procs[lastOp.p]
         IN /\ self.batch_info = <<>>
            /\ mats[self.transition_mat].batch = <<>>
            /\ mats[self.measure_mat].batch = <<>>
            /\ mats[self.variance_multi_mat].batch = <<>>
      /\ lastOp.err # "" => lastOp.ret = 0 /\ procs = lastOp.procs0 /\ mats = lastOp.mats0
      /\ lastOp.err = "" =>
           LET self == procs[lastOp.p]
               c == procs[lastOp.ret]
           IN /\ lastOp.ret \notin DOMAIN lastOp.procs0 /\ lastOp.ret # lastOp.p
              /\ c.batch_info = lastOp.args
              /\ {c.transition_mat, c.measure_mat, c.variance_multi_mat}
                   \cap DOMAIN lastOp.mats0 = {}
              /\ mats[c.transition_mat]
                   = [mats[self.transition_mat] EXCEPT !.batch = lastOp.args]
              /\ mats[c.measure_mat]
                   = [mats[self.measure_mat] EXCEPT !.batch = lastOp.args]
              /\ mats[c.variance_multi_mat]
                   = [mats[self.variance_multi_mat] EXCEPT !.batch = lastOp.args]
              /\ c.state_elements = self.state_elements
              /\ c.dynamic = self.dynamic /\ c.fixed = self.fixed

C6_Witness ==
    /\ IsOp("for_batch") /\ lastOp.err = ""
    /\ procs[lastOp.ret].batch_info = <<1, MaxT>>
    /\ procs[lastOp.p].batch_info = <<>>

\* The process for_batch was called on, and its matrices, as the call found them
CalledOn == lastOp.procs0[lastOp.p]
CalledMeasures == measures_of(lastOp.mats0[CalledOn.measure_mat])
CalledTransitions == lastOp.mats0[CalledOn.transition_mat]

\* C7 as stated: a process with no registered measures fails for_batch with a
\* structural error, and once a measure has been added the identical call
\* succeeds.
C7_MeasureSuffices ==
    IsOp("for_batch") =>
      /\ CalledMeasures = {} => lastOp.err = "TypeError: no measures"
      /\ CalledMeasures # {} => lastOp.err = "" /\ lastOp.ret # 0

\* C7 amended: a process with no registered measures fails for_batch with a
\* structural error (TypeError); once a measure has been added the identical
\* call succeeds exactly when the transition matrix is not empty, and with an
\* empty transition matrix it still fails with a structural error.
C7_MeasureAndTransition ==
    IsOp("for_batch") =>
      /\ CalledMeasures = {} => lastOp.err = "TypeError: no measures" /\ lastOp.ret = 0
      /\ (CalledMeasures # {} /\ ~empty(CalledTransitions)) =>
            lastOp.err = "" /\ lastOp.ret # 0
      /\ (CalledMeasures # {} /\ empty(CalledTransitions)) =>
            lastOp.err = "TypeError: no transitions" /\ lastOp.ret = 0

C7_Witness ==
    /\ IsOp("for_batch") /\ CalledMeasures = {"y"} /\ ~empty(CalledTransitions)
    /\ lastOp.err = "" /\ lastOp.ret # 0

HasDuplicates(state_elements) ==
    \E i, j \in DOMAIN state_elements : i # j /\ state_elements[i] = state_elements[j]

\* C8: every Process whose construction completed has pairwise-distinct
\* state-element names and disjoint fixed and dynamic sets; a construction with a
\* duplicated name, or in a class whose fixed and dynamic elements overlap,
\* raises in the constructor, and for_batch never raises for either reason.
C8_ValidatedAtConstruction ==
    /\ \A p \in DOMAIN procs :
         /\ ~HasDuplicates(procs[p].state_elements)
         /\ procs[p].dynamic \cap procs[p].fixed = {}
    /\ IsOp("init") =>
         LET bad == \/ HasDuplicates(lastOp.args[1])
                    \/ lastOp.args[2].dynamic \cap lastOp.args[2].fixed # {}
         IN /\ bad => /\ lastOp.err \in {"ValueError: duplicate state_elements",
                                         "ValueError: misconfigured"}
                      /\ lastOp.ret = 0
                      /\ procs = lastOp.procs0 /\ mats = lastOp.mats0
            /\ ~bad => /\ lastOp.err = ""
                       /\ lastOp.ret = Len(lastOp.procs0) + 1
                       /\ procs[lastOp.ret].state_elements = lastOp.args[1]
    /\ IsOp("for_batch") =>
         lastOp.err \in {"", "TypeError: no measures", "TypeError: no transitions"}

C8_Witness ==
    /\ IsOp("init") /\ lastOp.args[1] = <<"a", "a">>
    /\ lastOp.err = "ValueError: duplicate state_elements"
    /\ Len(procs) = 1

(***************************************************************************)
(* Properties of __init_subclass__ (checked under SpecSub)                 *)
(***************************************************************************)
OverridesBoth(cls) == cls.for_batch_code # 0 /\ cls.init_mean_code # 0
SameKeywords(cls) == batch_kwargs(cls.for_batch) = batch_kwargs(cls.init_mean)

\* C9 as stated: every subclass that overrides both initial_state_means_for_batch
\* and for_batch has exactly equal batch keyword sets; a subclass where they
\* differ is rejected with an error when it is defined.
C9_SignaturesMatch ==
    /\ \A c \in DOMAIN classes : OverridesBoth(classes[c]) => SameKeywords(classes[c])
    /\ lastDef # <<>> =>
         ((OverridesBoth(lastDef.cls) /\ ~SameKeywords(lastDef.cls)) => lastDef.err # "")

\* C9 amended: every subclass that keeps Process.batch_kwargs and overrides both
\* methods has exactly equal batch keyword sets, and one where they differ is
\* rejected with a TypeError when it is defined; a subclass that overrides (or
\* inherits an override of) batch_kwargs is not checked and is always accepted.
C9_SignaturesMatchUnlessBatchKwargsOverridden ==
    /\ \A c \in DOMAIN classes :
         (classes[c].batch_kwargs_code = 0 /\ OverridesBoth(classes[c]))
            => SameKeywords(classes[c])
    /\ lastDef # <<>> =>
         /\ (/\ lastDef.cls.batch_kwargs_code = 0
             /\ OverridesBoth(lastDef.cls) /\ ~SameKeywords(lastDef.cls))
               => /\ lastDef.err # ""
                  /\ \A c \in DOMAIN classes : classes[c] # lastDef.cls
         /\ lastDef.cls.batch_kwargs_code # 0
               => lastDef.err = "" /\ classes[Len(classes)] = lastDef.cls

C9_Witness ==
    /\ lastDef # <<>>
    /\ lastDef.cls.batch_kwargs_code = 0 /\ OverridesBoth(lastDef.cls)
    /\ batch_kwargs(lastDef.cls.for_batch) = {"start_datetimes", "input"}
    /\ batch_kwargs(lastDef.cls.init_mean) = {"start_datetimes"}
    /\ lastDef.err = "TypeError: must match signature of for_batch"

============================================================================
